---- MODULE Spec2Model ----
(***************************************************************************)
(* Model of scripts/csv_to_profiles.py: the usage-profile generator that   *)
(* reads BEAT_EXCEL_2026.csv, resolves every row to a canonical id,        *)
(* normalises its cells and prints a TypeScript table.                     *)
(*                                                                         *)
(* Python strings are TLA+ strings; Len, \o and SubSeq work on them.       *)
(* Python sequence indices are 0-based, TLA+ ones 1-based: row[i] in the   *)
(* source is Idx(row, i) here.                                             *)
(***************************************************************************)
EXTENDS Integers, Sequences, FiniteSets, TLC

VARIABLES pc, fs, reader, row, profiles, printed, out, exc, arg, res

vars == <<pc, fs, reader, row, profiles, printed, out, exc, arg, res>>

(***************************************************************************)
(* Bounds of the model.                                                    *)
(***************************************************************************)
MaxLen == 3
MaxRows == 2

(***************************************************************************)
(* Python string primitives.                                               *)
(***************************************************************************)
Char(s, i) == SubSeq(s, i, i)

DropFirst(s, n) == SubSeq(s, n + 1, Len(s))

Contains(s, c) == \E i \in 1..Len(s) : Char(s, i) = c

\* index of the first occurrence of the character c in s, 0 when there is none
FindChar(s, c) ==
    IF Contains(s, c)
    THEN CHOOSE i \in 1..Len(s) :
            /\ Char(s, i) = c
            /\ \A j \in 1..(i - 1) : Char(s, j) # c
    ELSE 0

\* s.split(sep) for a one-character separator: the list of pieces
RECURSIVE StrSplit(_, _)
StrSplit(s, sep) ==
    LET i == FindChar(s, sep)
    IN  IF i = 0
        THEN <<s>>
        ELSE <<SubSeq(s, 1, i - 1)>> \o StrSplit(DropFirst(s, i), sep)

\* s.replace(old, new) for a one-character old
RECURSIVE StrReplace(_, _, _)
StrReplace(s, old, new) ==
    IF s = ""
    THEN ""
    ELSE (IF Char(s, 1) = old THEN new ELSE Char(s, 1))
            \o StrReplace(DropFirst(s, 1), old, new)

IsSpace(c) == c = " "

RECURSIVE LStrip(_)
LStrip(s) ==
    IF s # "" /\ IsSpace(Char(s, 1)) THEN LStrip(DropFirst(s, 1)) ELSE s

RECURSIVE RStrip(_)
RStrip(s) ==
    IF s # "" /\ IsSpace(Char(s, Len(s)))
    THEN RStrip(SubSeq(s, 1, Len(s) - 1))
    ELSE s

StrStrip(s) == RStrip(LStrip(s))

DigitChars == {"0", "1", "2", "3", "4", "5", "6", "7", "8", "9"}

DigitVal(c) ==
    CASE c = "0" -> 0 [] c = "1" -> 1 [] c = "2" -> 2 [] c = "3" -> 3
      [] c = "4" -> 4 [] c = "5" -> 5 [] c = "6" -> 6 [] c = "7" -> 7
      [] c = "8" -> 8 [] c = "9" -> 9

\* a run of decimal digits in which single underscores may separate digits
IsDigitPart(s) ==
    /\ s # ""
    /\ \A i \in 1..Len(s) : Char(s, i) \in DigitChars \cup {"_"}
    /\ Char(s, 1) # "_"
    /\ Char(s, Len(s)) # "_"
    /\ \A i \in 1..(Len(s) - 1) : ~(Char(s, i) = "_" /\ Char(s, i + 1) = "_")

RECURSIVE DigitPartVal(_, _)
DigitPartVal(s, acc) ==
    IF s = ""
    THEN acc
    ELSE DigitPartVal(DropFirst(s, 1),
                      IF Char(s, 1) = "_" THEN acc
                      ELSE 10 * acc + DigitVal(Char(s, 1)))

RECURSIVE CountDigits(_)
CountDigits(s) ==
    IF s = ""
    THEN 0
    ELSE (IF Char(s, 1) = "_" THEN 0 ELSE 1) + CountDigits(DropFirst(s, 1))

HasSign(s) == s # "" /\ Char(s, 1) \in {"+", "-"}

Unsigned(s) == IF HasSign(s) THEN DropFirst(s, 1) ELSE s

IsNeg(s) == s # "" /\ Char(s, 1) = "-"

(***************************************************************************)
(* Python numbers.  A number is a record: cls is the Python type, sp tells *)
(* a finite value from inf and nan, and a finite value is                  *)
(* (-1)^neg * m * 10^e.                                                    *)
(***************************************************************************)
IntNum(n) ==
    [cls |-> "int", sp |-> "fin", neg |-> n < 0,
     m |-> IF n < 0 THEN 0 - n ELSE n, e |-> 0]

RECURSIVE StripZeros(_, _)
StripZeros(m, e) ==
    IF m = 0
    THEN <<0, 0>>
    ELSE IF m % 10 = 0 THEN StripZeros(m \div 10, e + 1) ELSE <<m, e>>

FloatNum(neg, m, e) ==
    LET n == StripZeros(m, e)
    IN  [cls |-> "float", sp |-> "fin", neg |-> neg, m |-> n[1], e |-> n[2]]

FloatInf(neg) == [cls |-> "float", sp |-> "inf", neg |-> neg, m |-> 0, e |-> 0]

FloatNaN == [cls |-> "float", sp |-> "nan", neg |-> FALSE, m |-> 0, e |-> 0]

\* Python's == on numbers: int and float compare by value, nan equals nothing
NumEq(a, b) ==
    LET na == StripZeros(a.m, a.e)
        nb == StripZeros(b.m, b.e)
    IN  /\ a.sp # "nan"
        /\ b.sp # "nan"
        /\ a.sp = b.sp
        /\ \/ a.sp = "inf" /\ a.neg = b.neg
           \/ a.sp = "fin" /\ na = nb /\ (a.neg = b.neg \/ na[1] = 0)

Returned(v) == [exc |-> "none", v |-> v]

Raised(e) == [exc |-> e, v |-> IntNum(0)]

(***************************************************************************)
(* int(str) and float(str) of Python, on the characters the model uses.    *)
(***************************************************************************)
RECURSIVE NumDigits(_)
NumDigits(m) == IF m < 10 THEN 1 ELSE 1 + NumDigits(m \div 10)

RECURSIVE Pow10(_)
Pow10(k) == IF k <= 0 THEN 1 ELSE 10 * Pow10(k - 1)

SignedVal(s) ==
    IF IsNeg(s) THEN 0 - DigitPartVal(Unsigned(s), 0) ELSE DigitPartVal(Unsigned(s), 0)

IntOfStripped(t) ==
    IF IsDigitPart(Unsigned(t))
    THEN Returned(IntNum(SignedVal(t)))
    ELSE Raised("ValueError")

\* int(s): optional surrounding whitespace, optional sign, digits
PyInt(s) == IntOfStripped(StrStrip(s))

LowerChar(c) ==
    CASE c = "I" -> "i" [] c = "N" -> "n" [] c = "F" -> "f" [] c = "A" -> "a"
      [] c = "T" -> "t" [] c = "Y" -> "y" [] c = "E" -> "e" [] OTHER -> c

RECURSIVE StrLower(_)
StrLower(s) ==
    IF s = "" THEN "" ELSE LowerChar(Char(s, 1)) \o StrLower(DropFirst(s, 1))

\* the first nine significant digits of m
Lead9(m, nd) == IF nd <= 9 THEN m * Pow10(9 - nd) ELSE m \div Pow10(nd - 9)

\* the double nearest to (-1)^neg * m * 10^e for m without trailing zeros and
\* decpt = number of digits of m + e: out of range goes to inf or to 0
FloatInRange(neg, m, e, decpt) ==
    IF m = 0 THEN FloatNum(neg, 0, 0)
    ELSE IF decpt > 309 \/ (decpt = 309 /\ Lead9(m, decpt - e) > 179769313)
    THEN FloatInf(neg)
    ELSE IF decpt < 0 - 323 THEN FloatNum(neg, 0, 0)
    ELSE FloatNum(neg, m, e)

FloatOfNormal(neg, n) == FloatInRange(neg, n[1], n[2], NumDigits(n[1]) + n[2])

FloatOfDecimal(neg, m, e) == FloatOfNormal(neg, StripZeros(m, e))

\* a decimal literal: integer part ip, fraction fp (hasDot), exponent expo (hasExp)
FloatOfParts(neg, ip, fp, hasDot, expo, hasExp) ==
    IF /\ IF hasDot
          THEN /\ ip = "" \/ IsDigitPart(ip)
               /\ fp = "" \/ IsDigitPart(fp)
               /\ ~(ip = "" /\ fp = "")
          ELSE IsDigitPart(ip)
       /\ ~hasExp \/ IsDigitPart(Unsigned(expo))
    THEN Returned(FloatOfDecimal(neg, DigitPartVal(ip \o fp, 0),
                                 (IF hasExp THEN SignedVal(expo) ELSE 0)
                                    - CountDigits(fp)))
    ELSE Raised("ValueError")

FloatOfMantissa(neg, mant, dot, expo, hasExp) ==
    FloatOfParts(neg,
                 IF dot = 0 THEN mant ELSE SubSeq(mant, 1, dot - 1),
                 IF dot = 0 THEN "" ELSE DropFirst(mant, dot),
                 dot # 0, expo, hasExp)

FloatOfLiteral(neg, mant, expo, hasExp) ==
    FloatOfMantissa(neg, mant, FindChar(mant, "."), expo, hasExp)

FloatOfSplit(neg, u, ePos) ==
    FloatOfLiteral(neg,
                   IF ePos = 0 THEN u ELSE SubSeq(u, 1, ePos - 1),
                   IF ePos = 0 THEN "" ELSE DropFirst(u, ePos),
                   ePos # 0)

FloatOfUnsigned(neg, u) ==
    IF u \in {"inf", "infinity"} THEN Returned(FloatInf(neg))
    ELSE IF u = "nan" THEN Returned(FloatNaN)
    ELSE FloatOfSplit(neg, u, FindChar(u, "e"))

FloatOfStripped(t) == FloatOfUnsigned(IsNeg(t), StrLower(Unsigned(t)))

\* float(s): whitespace, sign, then inf, infinity, nan or a decimal literal
PyFloat(s) == FloatOfStripped(StrStrip(s))

(***************************************************************************)
(* parse_time and clean_num.                                               *)
(***************************************************************************)
\* Python sequence indexing, 0-based
Idx(seq, i) == seq[i + 1]

\* try: return <call> / except: return 0
OrZero(r) == IF r.exc # "none" THEN Returned(IntNum(0)) ELSE r

\* variant of parse_time: no try/except around int()
parse_time_unguarded(t_str) ==
    IF t_str = "" \/ ~Contains(t_str, ":")
    THEN Returned(IntNum(0))
    ELSE PyInt(Idx(StrSplit(t_str, ":"), 0))

parse_time(t_str) ==
    IF t_str = "" \/ ~Contains(t_str, ":")
    THEN Returned(IntNum(0))
    ELSE OrZero(PyInt(Idx(StrSplit(t_str, ":"), 0)))

\* variant of clean_num: only the commas are removed, the percent sign stays
clean_num_keep_percent(s) ==
    IF s = ""
    THEN Returned(IntNum(0))
    ELSE OrZero(PyFloat(StrReplace(s, ",", "")))

clean_num(s) ==
    IF s = ""
    THEN Returned(IntNum(0))
    ELSE OrZero(PyFloat(StrReplace(StrReplace(s, ",", ""), "%", "")))

(***************************************************************************)
(* The identifier tables and the resolution of a row's prefix.             *)
(***************************************************************************)
ID_MAPPING ==
    "01" :> "1_single_office" @@ "02" :> "2_group_office"
    @@ "03" :> "3_open_plan_office" @@ "04" :> "4_meeting"
    @@ "05" :> "5_counter" @@ "06" :> "6_retail"
    @@ "07" :> "7_retail_refrig" @@ "08" :> "8_classroom"
    @@ "09" :> "9_lecture_hall" @@ "10" :> "10_bed_room"
    @@ "11" :> "11_hotel_room" @@ "12" :> "12_canteen"
    @@ "13" :> "13_restaurant" @@ "14" :> "14_kitchen"
    @@ "15" :> "15_kitchen_prep" @@ "16" :> "16_wc"
    @@ "17" :> "17_common_area" @@ "18" :> "18_support_store"
    @@ "19" :> "19_corridor_care" @@ "20" :> "20_storage_uncond"
    @@ "21" :> "21_datacenter" @@ "22.1" :> "22_1_workshop_light"
    @@ "22.2" :> "22_2_workshop_medium" @@ "22.3" :> "22_3_workshop_heavy"
    @@ "23" :> "23_theater_audience" @@ "24" :> "24_cloakroom"
    @@ "25" :> "25_theater_foh" @@ "26" :> "26_stage"
    @@ "31" :> "31_gym" @@ "32" :> "32_parking_office"
    @@ "33" :> "33_parking_public" @@ "34" :> "34_sauna"
    @@ "35" :> "35_fitness" @@ "36" :> "36_lab"
    @@ "37" :> "37_exam_room" @@ "38" :> "38_icu"
    @@ "39" :> "39_corridor_icu" @@ "40" :> "40_medical_practice"
    @@ "41" :> "41_logistics" @@ "42" :> "residential_single"
    @@ "43" :> "residential_multi" @@ "44" :> "residential_general"

\* the override dictionary the module defines; generate_ts does not read it
MANUAL_MAP ==
    "26" :> "28_fair" @@ "27" :> "27_exhibition"
    @@ "28" :> "29_library_public" @@ "29" :> "30_library_stack"

\* an optional string: None, or a str
None == [none |-> TRUE, s |-> ""]

Some(s) == [none |-> FALSE, s |-> s]

\* Python truthiness: `not x` holds of None and of the empty string
Falsy(o) == o.none \/ o.s = ""

\* dict.get(key)
DictGet(d, k) == IF k \in DOMAIN d THEN Some(d[k]) ELSE None

\* variant of Prefix: the whole first cell is taken as the prefix
PrefixWholeCell(raw_name) == raw_name

\* prefix = raw_name.split(" ")[0]
Prefix(raw_name) == Idx(StrSplit(raw_name, " "), 0)

\* the if/elif chain under `if not id_key`
ManualChain(prefix, id_key) ==
    IF prefix = "26" THEN Some("28_fair")
    ELSE IF prefix = "27" THEN Some("27_exhibition")
    ELSE IF prefix = "28" THEN Some("29_library_public")
    ELSE IF prefix = "29" THEN Some("30_library_stack")
    ELSE IF prefix = "30" THEN Some("30_library_stack_closed")
    ELSE IF prefix = "25" THEN Some("26_stage")
    ELSE id_key

\* variant of SyntheticId: the dots of the prefix are kept
SyntheticIdKeepDots(prefix) == "profile_" \o prefix

\* variant of SyntheticId: the literal "profile_" is left out
SyntheticIdBare(prefix) == StrReplace(prefix, ".", "_")

SyntheticId(prefix) == "profile_" \o StrReplace(prefix, ".", "_")

\* variant of ResolveId: the manual chain is consulted before ID_MAPPING
ResolveIdManualFirst(prefix) ==
    LET id0 == ManualChain(prefix, None)
        id1 == IF Falsy(id0) THEN DictGet(ID_MAPPING, prefix) ELSE id0
        id2 == IF Falsy(id1) THEN Some(SyntheticId(prefix)) ELSE id1
    IN  id2.s

ResolveId(prefix) ==
    LET id0 == DictGet(ID_MAPPING, prefix)
        id1 == IF Falsy(id0) THEN ManualChain(prefix, id0) ELSE id0
        id2 == IF Falsy(id1) THEN Some(SyntheticId(prefix)) ELSE id1
    IN  id2.s

(***************************************************************************)
(* csv.reader: one line of text to the list of its cells.  A blank line    *)
(* yields the empty list; a cell that starts with a double quote runs to   *)
(* the closing quote and may hold commas, a doubled quote inside it is one *)
(* quote, and text between the closing quote and the next comma is kept.   *)
(* (Every line of the model closes the quotes it opens.)                   *)
(***************************************************************************)
\* the text of s up to its first comma, what follows that comma, and
\* whether there was a comma
UpToComma(s) ==
    LET i == FindChar(s, ",")
    IN  IF i = 0
        THEN [field |-> s, rest |-> "", more |-> FALSE]
        ELSE [field |-> SubSeq(s, 1, i - 1), rest |-> DropFirst(s, i), more |-> TRUE]

\* s is the text after an opening quote, cur the text of the cell so far
RECURSIVE QuotedField(_, _)
QuotedField(s, cur) ==
    LET j == FindChar(s, "\"")
    IN  IF j = 0
        THEN [field |-> cur \o s, rest |-> "", more |-> FALSE]
        ELSE IF Char(s, j + 1) = "\""
        THEN QuotedField(DropFirst(s, j + 1), cur \o SubSeq(s, 1, j))
        ELSE LET t == UpToComma(DropFirst(s, j))
             IN  [field |-> cur \o SubSeq(s, 1, j - 1) \o t.field,
                  rest |-> t.rest, more |-> t.more]

FirstField(s) ==
    IF s # "" /\ Char(s, 1) = "\"" THEN QuotedField(DropFirst(s, 1), "") ELSE UpToComma(s)

RECURSIVE CsvFields(_)
CsvFields(s) ==
    LET f == FirstField(s)
    IN  IF f.more THEN <<f.field>> \o CsvFields(f.rest) ELSE <<f.field>>

CsvRow(line) == IF line = "" THEN <<>> ELSE CsvFields(line)

(***************************************************************************)
(* One data row to one profile record (the dict literal p).                *)
(***************************************************************************)
\* the indices i of the cells row[i] the dict literal reads
CellsRead == (1..8) \cup (10..13) \cup (15..27)

\* `if not row or not row[0]: continue`
RowSkipped(r) == IF r = <<>> THEN TRUE ELSE Idx(r, 0) = ""

\* reading row[i] past the end of the list raises IndexError
RowIndexError(r) == \E i \in CellsRead : i >= Len(r)

RowToRecord(r) ==
    IF RowIndexError(r)
    THEN [exc |-> "IndexError", v |-> <<>>]
    ELSE Returned(
        [id |-> ResolveId(Prefix(Idx(r, 0))),
         name |-> Idx(r, 0),
         usageHoursStart |-> parse_time(Idx(r, 1)).v,
         usageHoursEnd |-> parse_time(Idx(r, 2)).v,
         dailyUsageHours |-> clean_num(Idx(r, 3)).v,
         annualUsageDays |-> clean_num(Idx(r, 4)).v,
         usageHoursDay |-> clean_num(Idx(r, 5)).v,
         usageHoursNight |-> clean_num(Idx(r, 6)).v,
         hvacDailyOperationHours |-> clean_num(Idx(r, 7)).v,
         hvacAnnualOperationDays |-> clean_num(Idx(r, 8)).v,
         illuminance |-> clean_num(Idx(r, 10)).v,
         workplaneHeight |-> clean_num(Idx(r, 11)).v,
         illuminanceDepreciationFactor |-> clean_num(Idx(r, 12)).v,
         lightingAbsenceFactor |-> clean_num(Idx(r, 13)).v,
         partialOperationFactorLighting |-> clean_num(Idx(r, 15)).v,
         heatingSetpoint |-> clean_num(Idx(r, 16)).v,
         coolingSetpoint |-> clean_num(Idx(r, 17)).v,
         heatingSetbackTemp |-> clean_num(Idx(r, 18)).v,
         heatingDesignMinTemp |-> clean_num(Idx(r, 19)).v,
         coolingDesignMaxTemp |-> clean_num(Idx(r, 20)).v,
         humidityRequirement |-> Idx(r, 21),
         minOutdoorAir |-> clean_num(Idx(r, 22)).v,
         minOutdoorAirFlow |-> clean_num(Idx(r, 23)).v,
         hvacAbsenceFactor |-> clean_num(Idx(r, 24)).v,
         hvacPartialOperationFactor |-> clean_num(Idx(r, 25)).v,
         metabolicHeat |-> clean_num(Idx(r, 26)).v,
         equipmentHeat |-> clean_num(Idx(r, 27)).v])

(***************************************************************************)
(* Formatting of numbers in f-strings (str of an int, repr of a float).    *)
(***************************************************************************)
DigitStr(d) ==
    CASE d = 0 -> "0" [] d = 1 -> "1" [] d = 2 -> "2" [] d = 3 -> "3"
      [] d = 4 -> "4" [] d = 5 -> "5" [] d = 6 -> "6" [] d = 7 -> "7"
      [] d = 8 -> "8" [] d = 9 -> "9"

RECURSIVE NatStr(_)
NatStr(n) == IF n < 10 THEN DigitStr(n) ELSE NatStr(n \div 10) \o DigitStr(n % 10)

RECURSIVE Zeros(_)
Zeros(k) == IF k <= 0 THEN "" ELSE "0" \o Zeros(k - 1)

\* scientific notation: digits D, decimal exponent ex, its absolute value exAbs
SciRepr(D, ex, exAbs) ==
    Char(D, 1) \o (IF Len(D) > 1 THEN "." \o DropFirst(D, 1) ELSE "")
        \o "e" \o (IF ex < 0 THEN "-" ELSE "+")
        \o (IF exAbs < 10 THEN "0" ELSE "") \o NatStr(exAbs)

\* repr of the positive value 0.D * 10^decpt, D having n digits
DigitsRepr(D, n, decpt) ==
    IF decpt > 16 \/ decpt < 0 - 3
    THEN SciRepr(D, decpt - 1, IF decpt < 1 THEN 1 - decpt ELSE decpt - 1)
    ELSE IF decpt <= 0 THEN "0." \o Zeros(0 - decpt) \o D
    ELSE IF decpt >= n THEN D \o Zeros(decpt - n) \o ".0"
    ELSE SubSeq(D, 1, decpt) \o "." \o DropFirst(D, decpt)

FloatRepr(x) ==
    IF x.sp = "nan" THEN "nan"
    ELSE (IF x.neg THEN "-" ELSE "")
            \o (IF x.sp = "inf" THEN "inf"
                ELSE IF x.m = 0 THEN "0.0"
                ELSE DigitsRepr(NatStr(x.m), NumDigits(x.m), NumDigits(x.m) + x.e))

Fmt(x) ==
    IF x.cls = "int"
    THEN (IF x.neg THEN "-" ELSE "") \o NatStr(x.m)
    ELSE FloatRepr(x)

OpeningLine == "export const DIN_18599_PROFILES: Record<string, UsageProfile> = {"

ClosingLine == "};"

KeyLine(id) == "    \"" \o id \o "\": {"

\* the lines the body of `for p in profiles` prints for one record
EntryLines(p) ==
    << KeyLine(p.id),
       "        id: \"" \o p.id \o "\", name: \"" \o p.name \o "\",",
       "        usageHoursStart: " \o Fmt(p.usageHoursStart)
            \o ", usageHoursEnd: " \o Fmt(p.usageHoursEnd) \o ",",
       "        dailyUsageHours: " \o Fmt(p.dailyUsageHours)
            \o ", annualUsageDays: " \o Fmt(p.annualUsageDays) \o ",",
       "        usageHoursDay: " \o Fmt(p.usageHoursDay)
            \o ", usageHoursNight: " \o Fmt(p.usageHoursNight) \o ",",
       "        hvacDailyOperationHours: " \o Fmt(p.hvacDailyOperationHours)
            \o ", hvacAnnualOperationDays: " \o Fmt(p.hvacAnnualOperationDays) \o ",",
       "        illuminance: " \o Fmt(p.illuminance)
            \o ", workplaneHeight: " \o Fmt(p.workplaneHeight) \o ",",
       "        illuminanceDepreciationFactor: " \o Fmt(p.illuminanceDepreciationFactor)
            \o ", lightingAbsenceFactor: " \o Fmt(p.lightingAbsenceFactor) \o ",",
       "        partialOperationFactorLighting: "
            \o Fmt(p.partialOperationFactorLighting) \o ",",
       "        heatingSetpoint: " \o Fmt(p.heatingSetpoint)
            \o ", coolingSetpoint: " \o Fmt(p.coolingSetpoint) \o ",",
       "        heatingSetbackTemp: " \o Fmt(p.heatingSetbackTemp) \o ",",
       "        heatingDesignMinTemp: " \o Fmt(p.heatingDesignMinTemp)
            \o ", coolingDesignMaxTemp: " \o Fmt(p.coolingDesignMaxTemp) \o ",",
       "        humidityRequirement: \"" \o p.humidityRequirement \o "\",",
       "        minOutdoorAir: " \o Fmt(p.minOutdoorAir)
            \o ", minOutdoorAirFlow: " \o Fmt(p.minOutdoorAirFlow) \o ",",
       "        hvacAbsenceFactor: " \o Fmt(p.hvacAbsenceFactor)
            \o ", hvacPartialOperationFactor: " \o Fmt(p.hvacPartialOperationFactor) \o ",",
       "        metabolicHeat: " \o Fmt(p.metabolicHeat)
            \o ", equipmentHeat: " \o Fmt(p.equipmentHeat),
       "    }," >>

(***************************************************************************)
(* Inputs of the pure functions: every string over a small alphabet up to  *)
(* MaxLen characters, and the cells the documentation quotes.              *)
(***************************************************************************)
RECURSIVE StringsUpTo(_, _)
StringsUpTo(A, n) ==
    IF n = 0
    THEN {""}
    ELSE LET S == StringsUpTo(A, n - 1)
         IN  S \cup {s \o c : s \in S, c \in A}

TimeAlphabet == {"0", "8", "9", ":", "g", " ", "-", "_"}

TimeInputs ==
    StringsUpTo(TimeAlphabet, MaxLen)
        \cup {"9:30", "08:00", "18:00", "garbage", "1:2:3", " 7 :15", "+12:00"}

NumAlphabet == {"1", "5", ",", "%", ".", "-", "e", "n", "a", " "}

NumInputs ==
    StringsUpTo(NumAlphabet, MaxLen)
        \cup {"1,234", "55%", "abc", "0.85", "250", "1,2,3%", "1e400", "-inf",
              "1_0", "%,", "1e-5"}

NoResult == [exc |-> "pending", v |-> IntNum(0)]

NoFile == [exists |-> FALSE, lines |-> <<>>, bad |-> 0]

PureInit(p, inputs) ==
    /\ pc = p
    /\ arg \in inputs
    /\ res = NoResult
    /\ fs = NoFile
    /\ reader = 0
    /\ row = <<>>
    /\ profiles = <<>>
    /\ printed = 0
    /\ out = <<>>
    /\ exc = "none"

PureUnchanged == UNCHANGED <<fs, reader, row, profiles, printed, out, exc, arg>>

InitParseTime == PureInit("parse_time", TimeInputs)

CallParseTime ==
    /\ pc = "parse_time"
    /\ res' = parse_time(arg)
    /\ pc' = "parse_time_ret"
    /\ PureUnchanged

NextParseTime == CallParseTime

SpecParseTime == InitParseTime /\ [][NextParseTime]_vars

InitCleanNum == PureInit("clean_num", NumInputs)

CallCleanNum ==
    /\ pc = "clean_num"
    /\ res' = clean_num(arg)
    /\ pc' = "clean_num_ret"
    /\ PureUnchanged

NextCleanNum == CallCleanNum

SpecCleanNum == InitCleanNum /\ [][NextCleanNum]_vars
PrefixAlphabet == {"2", "3", "0", "9", "5", "6", ".", " "}

NameInputs ==
    StringsUpTo(PrefixAlphabet, MaxLen)
        \cup {k \o " Name" : k \in DOMAIN ID_MAPPING \cup DOMAIN MANUAL_MAP}
        \cup {"30 Library", "99.5 Other", "22.1 Workshop", "1.2.3", "x"}

InitResolve == PureInit("resolve", NameInputs)

CallResolve ==
    /\ pc = "resolve"
    /\ res' = Returned(ResolveId(Prefix(arg)))
    /\ pc' = "resolve_ret"
    /\ PureUnchanged

NextResolve == CallResolve

SpecResolve == InitResolve /\ [][NextResolve]_vars
(***************************************************************************)
(* generate_ts: the files it may find at BEAT_EXCEL_2026.csv.              *)
(* A file is missing, or holds lines of text; bad is the number of the     *)
(* first line whose bytes are not valid UTF-8 (0: every line decodes).     *)
(***************************************************************************)
RECURSIVE Commas(_)
Commas(k) == IF k <= 0 THEN "" ELSE "," \o Commas(k - 1)

HeaderLine == "Profile,Start,End"

\* the data row the documentation quotes: 27 cells
ExampleLine ==
    "22.1 Workshop,08:00,18:00,10,250,8,2,9,240,,,500,0.85,0.9,0.8,1,20,24,16,5,28,,,0.8,0.9,1.2,5"

\* the same row with one more (empty) cell: 28 cells
ExampleLine28 == ExampleLine \o ","

BlankLine == ""

NoNameLine == ",08:00,18:00,10"

\* 29 cells, with malformed, quoted and extreme numeric cells
MalformedLine ==
    "26 Fair,garbage,9:30,\"1,234\",55%,abc,nan,-1e400,1e16,x,0.00001" \o Commas(18)

\* the first cell starts with a space: the prefix is empty
SpaceLine == " lobby" \o Commas(27)

ShortLine == "30 Stack,08:00"

\* resolves to the same identifier as ExampleLine28
DupLine == "22.1 Annex,7:15" \o Commas(26)

DataLines ==
    {ExampleLine, ExampleLine28, BlankLine, NoNameLine, MalformedLine,
     SpaceLine, ShortLine, DupLine}

DataSeqs == UNION {[1..n -> DataLines] : n \in 0..MaxRows}

Files ==
    {NoFile}
        \cup {[exists |-> TRUE, lines |-> l, bad |-> b] :
                l \in {<<>>} \cup {<<HeaderLine>> \o d : d \in DataSeqs},
                b \in 0..(MaxRows + 1)}

Init ==
    /\ pc = "open"
    /\ fs \in {f \in Files : f.bad <= Len(f.lines)}
    /\ reader = 0
    /\ row = <<>>
    /\ profiles = <<>>
    /\ printed = 0
    /\ out = <<>>
    /\ exc = "none"
    /\ arg = ""
    /\ res = NoResult

Fail(e) ==
    /\ pc' = "error"
    /\ exc' = e
    /\ UNCHANGED <<fs, reader, row, profiles, printed, out, arg, res>>

\* open('BEAT_EXCEL_2026.csv', 'r', encoding='utf-8')
Open ==
    /\ pc = "open"
    /\ IF fs.exists
       THEN /\ pc' = "header"
            /\ UNCHANGED <<fs, reader, row, profiles, printed, out, exc, arg, res>>
       ELSE Fail("FileNotFoundError")

\* the next line can be handed to the csv reader
CanRead == reader < Len(fs.lines) /\ fs.bad # reader + 1

\* header = next(reader)
ReadHeader ==
    /\ pc = "header"
    /\ IF fs.lines = <<>>
       THEN Fail("StopIteration")
       ELSE /\ CanRead
            /\ reader' = 1
            /\ pc' = "loop"
            /\ UNCHANGED <<fs, row, profiles, printed, out, exc, arg, res>>

\* the file is decoded in blocks: undecodable bytes ahead of the reader
\* abort this read or a later one
ReadFails ==
    /\ pc \in {"header", "loop"}
    /\ fs.bad > reader
    /\ Fail("UnicodeDecodeError")

\* `for row in reader` binds the next row
ReadRow ==
    /\ pc = "loop"
    /\ CanRead
    /\ row' = CsvRow(fs.lines[reader + 1])
    /\ reader' = reader + 1
    /\ pc' = "body"
    /\ UNCHANGED <<fs, profiles, printed, out, exc, arg, res>>

\* `if not row or not row[0]: continue`
SkipRow ==
    /\ pc = "body"
    /\ RowSkipped(row)
    /\ pc' = "loop"
    /\ UNCHANGED <<fs, reader, row, profiles, printed, out, exc, arg, res>>

\* variant of AppendRow: the entry is printed as soon as its row is read
AppendRowStreaming ==
    /\ pc = "body"
    /\ ~RowSkipped(row)
    /\ RowToRecord(row).exc = "none"
    /\ profiles' = Append(profiles, RowToRecord(row).v)
    /\ out' = out \o EntryLines(RowToRecord(row).v)
    /\ pc' = "loop"
    /\ UNCHANGED <<fs, reader, row, printed, exc, arg, res>>

\* the loop body up to profiles.append(p)
AppendRow ==
    /\ pc = "body"
    /\ ~RowSkipped(row)
    /\ RowToRecord(row).exc = "none"
    /\ profiles' = Append(profiles, RowToRecord(row).v)
    /\ pc' = "loop"
    /\ UNCHANGED <<fs, reader, row, printed, out, exc, arg, res>>

\* the loop body when building p raises
RowRaises ==
    /\ pc = "body"
    /\ ~RowSkipped(row)
    /\ RowToRecord(row).exc # "none"
    /\ Fail(RowToRecord(row).exc)

\* the reader is exhausted: the with block ends
EndOfRows ==
    /\ pc = "loop"
    /\ reader = Len(fs.lines)
    /\ pc' = "print_open"
    /\ UNCHANGED <<fs, reader, row, profiles, printed, out, exc, arg, res>>

PrintOpening ==
    /\ pc = "print_open"
    /\ out' = Append(out, OpeningLine)
    /\ pc' = "print_entries"
    /\ UNCHANGED <<fs, reader, row, profiles, printed, exc, arg, res>>

\* one iteration of `for p in profiles`
PrintEntry ==
    /\ pc = "print_entries"
    /\ printed < Len(profiles)
    /\ out' = out \o EntryLines(profiles[printed + 1])
    /\ printed' = printed + 1
    /\ UNCHANGED <<pc, fs, reader, row, profiles, exc, arg, res>>

PrintClosing ==
    /\ pc = "print_entries"
    /\ printed = Len(profiles)
    /\ out' = Append(out, ClosingLine)
    /\ pc' = "done"
    /\ UNCHANGED <<fs, reader, row, profiles, printed, exc, arg, res>>

Next ==
    \/ Open
    \/ ReadHeader
    \/ ReadFails
    \/ ReadRow
    \/ SkipRow
    \/ AppendRow
    \/ RowRaises
    \/ EndOfRows
    \/ PrintOpening
    \/ PrintEntry
    \/ PrintClosing

Spec == Init /\ [][Next]_vars
(***************************************************************************)
(* Vocabulary of the properties.                                           *)
(***************************************************************************)
StartsWith(s, pre) == Len(s) >= Len(pre) /\ SubSeq(s, 1, Len(pre)) = pre

\* the text of s before its first occurrence of c (all of s without one)
TextBefore(s, c) ==
    IF \E i \in 1..Len(s) : Char(s, i) = c
    THEN SubSeq(s, 1, (CHOOSE i \in 1..Len(s) :
                          Char(s, i) = c /\ \A j \in 1..(i - 1) : Char(s, j) # c) - 1)
    ELSE s

\* s without its commas and percent signs
RECURSIVE WithoutSeparators(_)
WithoutSeparators(s) ==
    IF s = ""
    THEN ""
    ELSE WithoutSeparators(SubSeq(s, 1, Len(s) - 1))
            \o (IF Char(s, Len(s)) \in {",", "%"} THEN "" ELSE Char(s, Len(s)))

Terminated == pc \in {"done", "error"}

\* the errors of opening and reading the input file
InputErrors == {"FileNotFoundError", "StopIteration", "UnicodeDecodeError"}

LinesPerEntry == 17

\* the number of entries between the opening and the closing line
EntryCount(o) == IF Len(o) < 2 THEN 0 ELSE (Len(o) - 2) \div LinesPerEntry

\* the j-th line of the k-th printed entry
EntryLine(o, k, j) == o[1 + (k - 1) * LinesPerEntry + j]

DataRows(f) == IF f.lines = <<>> THEN <<>> ELSE Tail(f.lines)

HasName(line) == Len(CsvRow(line)) > 0 /\ CsvRow(line)[1] # ""

\* the data rows with a non-empty first cell, in file order
NamedRows(f) == SelectSeq(DataRows(f), HasName)

BlankRowExists(f) == \E i \in 1..Len(DataRows(f)) : ~HasName(DataRows(f)[i])

ExampleFile == [exists |-> TRUE, lines |-> <<HeaderLine, ExampleLine>>, bad |-> 0]

ExampleFile28 == [exists |-> TRUE, lines |-> <<HeaderLine, ExampleLine28>>, bad |-> 0]

C2_RowNeverRaises ==
    /\ pc = "error" => exc \in InputErrors
    /\ (pc = "body" /\ ~RowSkipped(row)) => ~RowIndexError(row)

IsSyntheticFor(id, p) ==
    /\ Len(id) = 8 + Len(p)
    /\ SubSeq(id, 1, 8) = "profile_"
    /\ \A i \in 1..Len(p) :
          Char(id, 8 + i) = (IF Char(p, i) = "." THEN "_" ELSE Char(p, i))

\* C4 as stated: every prefix that is a key of neither ID_MAPPING nor
\* MANUAL_MAP resolves to "profile_" plus the prefix with '.' replaced by
\* '_', the prefix "30" included.
C4_AsStated ==
    pc = "resolve_ret" =>
        LET p == TextBefore(arg, " ")
        IN  (p \notin DOMAIN ID_MAPPING \cup DOMAIN MANUAL_MAP)
                => IsSyntheticFor(res.v, p)

\* C4 amended: every prefix other than "30" that is a key of neither
\* ID_MAPPING nor MANUAL_MAP resolves to "profile_" plus the prefix with '.'
\* replaced by '_' ("99.5" to "profile_99_5"); "30" resolves to
\* "30_library_stack_closed".
C4_Amended ==
    pc = "resolve_ret" =>
        LET p == TextBefore(arg, " ")
        IN  /\ (p \notin DOMAIN ID_MAPPING \cup DOMAIN MANUAL_MAP /\ p # "30")
                    => IsSyntheticFor(res.v, p)
            /\ p = "99.5" => res.v = "profile_99_5"
            /\ p = "30" => res.v = "30_library_stack_closed"

C4_Witness ==
    /\ pc = "resolve_ret"
    /\ arg = "99.5 Other"
    /\ res.v = "profile_99_5"

(***************************************************************************)
(* C5.                                                                     *)
(***************************************************************************)
\* C5: rows with an empty first cell and rows without cells add no entry:
\* when the run has ended, for any reason but an error of opening or reading
\* the file, the number of printed entries is the number of data rows with a
\* non-empty first cell, and is less than the number of data rows when a
\* blank row exists.
C5_EntriesAreNamedRows ==
    (Terminated /\ exc \notin InputErrors) =>
        /\ EntryCount(out) = Len(NamedRows(fs))
        /\ BlankRowExists(fs) => EntryCount(out) < Len(DataRows(fs))

(***************************************************************************)
(* C6.                                                                     *)
(***************************************************************************)
\* C6: when the run has ended, for any reason but an error of opening or
\* reading the file, the printed table has one entry per data row with a
\* non-empty first cell, in file order, duplicates of an identifier included,
\* and the key of each entry is the id of its record.
C6_OneEntryPerRowInOrder ==
    (Terminated /\ exc \notin InputErrors) =>
        LET R == NamedRows(fs)
        IN  /\ EntryCount(out) = Len(R)
            /\ \A k \in 1..Len(R) :
                  LET name == CsvRow(R[k])[1]
                      id == ResolveId(Prefix(name))
                  IN  /\ EntryLine(out, k, 1) = "    \"" \o id \o "\": {"
                      /\ EntryLine(out, k, 2) =
                            "        id: \"" \o id \o "\", name: \"" \o name \o "\","

(***************************************************************************)
(* C7.                                                                     *)
(***************************************************************************)
\* C7: for every first cell, the empty prefix of a cell that starts with a
\* space included, identifier resolution returns a non-empty string and
\* raises nothing.
C7_ResolutionTotal ==
    pc = "resolve_ret" => (res.exc = "none" /\ Len(res.v) > 0)

C7_Witness ==
    /\ pc = "resolve_ret"
    /\ arg = " 2"
    /\ TextBefore(arg, " ") = ""
    /\ res.v = "profile_"

(***************************************************************************)
(* C8.                                                                     *)
(***************************************************************************)
\* C8: parse_time never raises; it returns 0 for the empty string and for a
\* string without ':', and otherwise the integer the text before the first
\* ':' denotes, or 0 when that text is no integer ("" gives 0, "9:30" gives
\* 9, "garbage" gives 0).
C8_ParseTime ==
    pc = "parse_time_ret" =>
        /\ res.exc = "none"
        /\ IF arg = "" \/ (\A i \in 1..Len(arg) : Char(arg, i) # ":")
           THEN res.v = IntNum(0)
           ELSE IF PyInt(TextBefore(arg, ":")).exc = "none"
           THEN res.v = PyInt(TextBefore(arg, ":")).v
           ELSE res.v = IntNum(0)
        /\ arg = "9:30" => res.v = IntNum(9)
        /\ arg = "08:00" => res.v = IntNum(8)
        /\ arg = "garbage" => res.v = IntNum(0)
        /\ arg = "g:0" => res.v = IntNum(0)

C8_Witness ==
    /\ pc = "parse_time_ret"
    /\ arg = "9:30"
    /\ res = Returned(IntNum(9))

(***************************************************************************)
(* C9.                                                                     *)
(***************************************************************************)
\* C9: clean_num never raises; it returns 0 for the empty string, and
\* otherwise the number that the text without its ',' and '%' denotes, or 0
\* when that text is no number ("" gives 0, "1,234" gives 1234, "55%" gives
\* 55, "abc" gives 0).
C9_CleanNum ==
    pc = "clean_num_ret" =>
        /\ res.exc = "none"
        /\ IF arg = ""
           THEN res.v = IntNum(0)
           ELSE IF PyFloat(WithoutSeparators(arg)).exc = "none"
           THEN res.v = PyFloat(WithoutSeparators(arg)).v
           ELSE res.v = IntNum(0)
        /\ arg = "1,234" => NumEq(res.v, IntNum(1234))
        /\ arg = "55%" => NumEq(res.v, IntNum(55))
        /\ arg = "abc" => NumEq(res.v, IntNum(0))
        /\ arg = "0.85" => res.v = FloatNum(FALSE, 85, 0 - 2)

C9_Witness ==
    /\ pc = "clean_num_ret"
    /\ arg = "1,234"
    /\ NumEq(res.v, IntNum(1234))

(***************************************************************************)
(* C10.                                                                    *)
(***************************************************************************)
\* C10: a run that has ended in an error has printed nothing, and whatever is
\* printed is printed after every row has been read and transformed.
C10_NoOutputOnError ==
    /\ pc = "error" => out = <<>>
    /\ out # <<>> => (reader = Len(fs.lines) /\ pc \in {"print_entries", "done"})

C10_Witness ==
    /\ pc = "error"
    /\ exc = "IndexError"
    /\ Len(profiles) > 0
    /\ out = <<>>

====
